---------------------------- MODULE Spec2Model ----------------------------
(***************************************************************************)
(* A model of write-json (src/src/lib.rs): a streaming JSON encoder that   *)
(* appends to a caller-supplied String through scoped Object and Array     *)
(* writers.  A character is its Unicode scalar value, a string the         *)
(* sequence of its characters, and the buffer a string.                    *)
(***************************************************************************)
EXTENDS Integers, Sequences, FiniteSets, TLC

(* ------------------------------ bounds --------------------------------- *)

\* calls a free-running caller makes
MaxOps == 3
\* writers a free-running caller nests
MaxDepth == 2
\* length of the input strings handed to the string encoder in StrSpec
MaxStrLen == 2

(* ---------------------------- characters ------------------------------- *)

DQUOTE == 34
BACKSLASH == 92
NEWLINE == 10
CARRIAGE == 13
TAB == 9

LBRACE == 123
RBRACE == 125
LBRACKET == 91
RBRACKET == 93
COMMA == 44
COLON == 58

\* b"0123456789ABCDEF"
HexDigits == <<48, 49, 50, 51, 52, 53, 54, 55, 56, 57, 65, 66, 67, 68, 69, 70>>

(* -------------------------- value encoders ----------------------------- *)

\* fn encode_null(buf, (): ()): buf.push_str("null")
encode_null(b, unit) == b \o <<110, 117, 108, 108>>

\* buf.push_str(if value { "true" } else { "false" })
encode_bool(b, value) ==
    b \o (IF value THEN <<116, 114, 117, 101>> ELSE <<102, 97, 108, 115, 101>>)

\* the decimal digits of a natural number, most significant first
RECURSIVE Digits(_)
Digits(n) ==
    IF n < 10 THEN <<48 + n>> ELSE Append(Digits(n \div 10), 48 + (n % 10))

\* write!(buf, "{}", number) for an integer-valued f64: Display prints the
\* sign and the integer digits, with no fraction and no exponent
encode_number(b, number) ==
    b \o (IF number < 0 THEN <<45>> \o Digits(0 - number) ELSE Digits(number))

\* s.bytes(): the UTF-8 encoding of one character
Utf8(c) ==
    IF c < 128 THEN <<c>>
    ELSE IF c < 2048 THEN <<192 + (c \div 64), 128 + (c % 64)>>
    ELSE IF c < 65536
         THEN <<224 + (c \div 4096), 128 + ((c \div 64) % 64), 128 + (c % 64)>>
         ELSE <<240 + (c \div 262144), 128 + ((c \div 4096) % 64),
                128 + ((c \div 64) % 64), 128 + (c % 64)>>

\* mutant: the byte 127 is kept off the fast path
FastByte_below_del(b) == 32 <= b /\ b # DQUOTE /\ b # BACKSLASH /\ b < 127

\* the closure of s.bytes().all(..): 32 <= b && b != b'"' && b != b'\\' && b < 128
FastByte(b) == 32 <= b /\ b # DQUOTE /\ b # BACKSLASH /\ b < 128

\* s.bytes().all(|b| ..)
FastPath(s) ==
    \A i \in 1..Len(s) : \A j \in 1..Len(Utf8(s[i])) : FastByte(Utf8(s[i])[j])

\* fn hex(b: u8) -> char
hex(b) == HexDigits[(b % 16) + 1]

\* fn push_escape(buf, c)
push_escape(b, c) == Append(Append(b, BACKSLASH), c)

\* mutant: the arm of the control ranges comes first
slow_char_ranges_first(b, c) ==
    LET u == c % 256 IN
    IF u <= 31 \/ (127 <= u /\ u <= 159)
    THEN Append(Append(push_escape(b, 117) \o <<48, 48>>, hex(u % 16)),
                hex(u \div 16))
    ELSE IF u = BACKSLASH \/ u = DQUOTE THEN push_escape(b, c)
    ELSE Append(b, c)

\* one iteration of slow_path's loop: let b = c as u8; match b { .. }
slow_char(b, c) ==
    LET u == c % 256 IN
    IF u = BACKSLASH \/ u = DQUOTE THEN push_escape(b, c)
    ELSE IF u = NEWLINE THEN push_escape(b, 110)
    ELSE IF u = CARRIAGE THEN push_escape(b, 114)
    ELSE IF u = TAB THEN push_escape(b, 116)
    ELSE IF u <= 31 \/ (127 <= u /\ u <= 159)
         THEN Append(Append(push_escape(b, 117) \o <<48, 48>>, hex(u % 16)),
                     hex(u \div 16))
         ELSE Append(b, c)

\* fn slow_path(buf, s): for c in s.chars() { .. }
RECURSIVE slow_path(_, _)
slow_path(b, s) ==
    IF s = <<>> THEN b ELSE slow_path(slow_char(b, Head(s)), Tail(s))

\* mutant: the slow path returns before the closing quote is pushed
encode_str_unclosed(b, s) ==
    LET q == Append(b, DQUOTE)
    IN IF FastPath(s) THEN Append(q \o s, DQUOTE) ELSE slow_path(q, s)

\* fn encode_str(buf, s)
encode_str(b, s) ==
    LET q == Append(b, DQUOTE)
        body == IF FastPath(s) THEN q \o s ELSE slow_path(q, s)
    IN Append(body, DQUOTE)

\* enc(buf, value) for the encoder a writer method hands to field or element
call(enc, b, value) ==
    IF enc = "encode_null" THEN encode_null(b, value)
    ELSE IF enc = "encode_bool" THEN encode_bool(b, value)
    ELSE IF enc = "encode_number" THEN encode_number(b, value)
    ELSE encode_str(b, value)

(* ------------------------------ writers -------------------------------- *)

\* mutant: the buffer is cleared before the opening bracket is pushed
Object_new_clears(b) ==
    [buf |-> <<LBRACE>>, w |-> [kind |-> "Object", first |-> TRUE]]

\* Object::new: buf.push('{'); Object { buf, first: true }
Object_new(b) ==
    [buf |-> Append(b, LBRACE), w |-> [kind |-> "Object", first |-> TRUE]]

\* mutant: the comma is pushed after the key
Object_key_comma_late(b, w, k) ==
    LET c == encode_str(b, k)
    IN [buf |-> Append(IF ~w.first THEN Append(c, COMMA) ELSE c, COLON),
        w |-> [w EXCEPT !.first = FALSE]]

\* mutant: first is left as it was
Object_key_keeps_first(b, w, k) ==
    LET c == IF ~w.first THEN Append(b, COMMA) ELSE b
    IN [buf |-> Append(encode_str(c, k), COLON), w |-> w]

\* mutant: the key is pushed between quotes as it is
Object_key_raw(b, w, k) ==
    LET c == IF ~w.first THEN Append(b, COMMA) ELSE b
    IN [buf |-> Append(Append(Append(c, DQUOTE) \o k, DQUOTE), COLON),
        w |-> [w EXCEPT !.first = FALSE]]

\* mutant: a key the buffer already holds is not written again
Object_key_once(b, w, k) ==
    LET c == IF ~w.first THEN Append(b, COMMA) ELSE b
        lit == Append(encode_str(<<>>, k), COLON)
    IN IF \E i \in 1..(Len(b) - Len(lit) + 1) : SubSeq(b, i, i + Len(lit) - 1) = lit
       THEN [buf |-> b, w |-> w]
       ELSE [buf |-> Append(encode_str(c, k), COLON),
             w |-> [w EXCEPT !.first = FALSE]]

\* Object::key: the comma unless first, first = false, the key, ':'
Object_key(b, w, k) ==
    LET c == IF ~w.first THEN Append(b, COMMA) ELSE b
    IN [buf |-> Append(encode_str(c, k), COLON), w |-> [w EXCEPT !.first = FALSE]]

\* Object::field: self.key(key); enc(&mut self.buf, value); self
Object_field(b, w, k, enc, value) ==
    LET r == Object_key(b, w, k) IN [buf |-> call(enc, r.buf, value), w |-> r.w]

\* mutant: nothing is pushed when the scope ends
Object_drop_nothing(b) == b

\* mutant: the closing bracket of the other kind
Object_drop_bracket(b) == Append(b, RBRACKET)

\* impl Drop for Object: self.buf.push('}')
Object_drop(b) == Append(b, RBRACE)

\* Array::new: buf.push('['); Array { buf, first: true }
Array_new(b) ==
    [buf |-> Append(b, LBRACKET), w |-> [kind |-> "Array", first |-> TRUE]]

\* mutant: first is never cleared
Array_comma_keeps_first(b, w) ==
    [buf |-> IF ~w.first THEN Append(b, COMMA) ELSE b, w |-> w]

\* Array::comma: the comma unless first, first = false
Array_comma(b, w) ==
    [buf |-> IF ~w.first THEN Append(b, COMMA) ELSE b,
     w |-> [w EXCEPT !.first = FALSE]]

\* Array::element: self.comma(); enc(&mut self.buf, value); self
Array_element(b, w, enc, value) ==
    LET r == Array_comma(b, w) IN [buf |-> call(enc, r.buf, value), w |-> r.w]

\* mutant: the closing bracket of the other kind
Array_drop_brace(b) == Append(b, RBRACE)

\* impl Drop for Array: self.buf.push(']')
Array_drop(b) == Append(b, RBRACKET)

(* ------------------------------- callers ------------------------------- *)

\* the keys, strings, numbers and booleans a free-running caller passes
Keys == {<<97>>, <<125, 34, 10, 92>>}
Strs == {<<93, 44>>, <<123, 34>>}
Nums == {-7, 92}
Bools == BOOLEAN

\* the calls of the test smoke and of the crate's doc example; depth is the
\* number of writers in scope at the call: obj, and the temporary that
\* obj.array("films") returns, which lives to the end of its statement
Smoke ==
    << [op |-> "object", depth |-> 0],
       [op |-> "Object::string", depth |-> 1, key |-> <<110, 97, 109, 101>>,
        val |-> <<80, 101, 116, 101, 114>>],
       [op |-> "Object::number", depth |-> 1,
        key |-> <<102, 97, 118, 111, 114, 105, 116, 101, 32,
                  110, 117, 109, 98, 101, 114>>,
        val |-> 92],
       [op |-> "Object::array", depth |-> 1, key |-> <<102, 105, 108, 109, 115>>],
       [op |-> "Array::string", depth |-> 2,
        val |-> <<68, 114, 111, 119, 110, 105, 110, 103, 32, 66, 121, 32,
                  78, 117, 109, 98, 101, 114, 115>>],
       [op |-> "Array::string", depth |-> 2,
        val |-> <<65, 32, 90, 101, 100, 32, 38, 32, 84, 119, 111, 32,
                  78, 111, 117, 103, 104, 116, 115>>],
       [op |-> "Object::null", depth |-> 1,
        key |-> <<115, 117, 105, 116, 99, 97, 115, 101>>] >>

\* the characters StrSpec builds its input strings from: the escaped ASCII
\* characters, control characters of both ranges, printable ASCII, Latin-1
\* and characters above 0xFF with every kind of low byte
Chars ==
    {0, 7, 9, 10, 13, 31, 32, 33, 34, 92, 126, 127, 128, 159, 160, 233,
     263, 266, 287, 290, 348, 8218, 10084, 128514}

\* the strings the test string_escaping encodes
TestStrings ==
    { <<>>, <<39>>, <<34>>, <<92>>,
      <<104, 101, 108, 108, 111, 32, 119, 111, 114, 108, 100>>,
      <<32, 13, 10, 9, 92, 32, 92, 114, 92, 110, 92, 116>>,
      <<226, 164, 287, 376, 732, 8218>>,
      <<0, 7, 31, 32, 126, 127, 128, 159, 33>>,
      <<127, 33>>,
      <<196, 352>> }

\* every string of at most MaxStrLen characters of Chars
StrInputs ==
    UNION {[1..n -> Chars] : n \in 0..MaxStrLen} \cup TestStrings

\* the control characters the test string_escaping encodes, and every string
\* of at most MaxStrLen + 1 of them
ControlChars == {0, 7, 31, 128, 159}
ControlInputs == UNION {[1..n -> ControlChars] : n \in 0..(MaxStrLen + 1)}

\* what the buffer may hold before the first call
InitBufs == {<<>>, <<LBRACKET>>}

(* -------------------------------- state -------------------------------- *)

VARIABLES
    buf,        \* the caller's String
    stack,      \* the live writers, outermost first: [kind, first]
    caller,     \* who drives: "any" (free-running), "smoke", "string"
    pc,         \* the calls the caller has made so far
    unwinding,  \* the caller has panicked: its scopes end and nothing else
    pre,        \* what buf held before the first call
    scope,      \* history, parallel to stack: [id, key, entries]
    docs,       \* history: the values completed at the top level
    life,       \* history: every writer opened, in order: [kind, state, n]
    arg,        \* history: the input of the last free string call
    mark        \* history: the length of buf before that call

vars == <<buf, stack, caller, pc, unwinding, pre, scope, docs, life, arg, mark>>

\* the values the calls imply
NullVal == [t |-> "null", b |-> FALSE, n |-> 0, s |-> <<>>, e |-> <<>>]
BoolVal(x) == [NullVal EXCEPT !.t = "bool", !.b = x]
NumVal(x) == [NullVal EXCEPT !.t = "number", !.n = x]
StrVal(x) == [NullVal EXCEPT !.t = "string", !.s = x]
TreeVal(kind, entries) == [NullVal EXCEPT !.t = kind, !.e = entries]

\* mutant: the outermost writer is used while its child is open
Top_outermost == stack[1]

\* the writer that holds the live borrow of buf: the innermost one
Top == stack[Len(stack)]
TopId == scope[Len(scope)].id

\* the arguments the caller may pass to op at this point
FreeArgs(op) ==
    IF op \in {"Object::null", "Object::object", "Object::array"}
    THEN [op : {op}, key : Keys]
    ELSE IF op = "Object::bool" THEN [op : {op}, key : Keys, val : Bools]
    ELSE IF op = "Object::number" THEN [op : {op}, key : Keys, val : Nums]
    ELSE IF op = "Object::string" THEN [op : {op}, key : Keys, val : Strs]
    ELSE IF op \in {"bool", "Array::bool"} THEN [op : {op}, val : Bools]
    ELSE IF op \in {"number", "Array::number"} THEN [op : {op}, val : Nums]
    ELSE IF op \in {"string", "Array::string"} THEN [op : {op}, val : Strs]
    ELSE {[op |-> op]}

Args(op) ==
    IF caller = "any"
    THEN IF ~unwinding /\ pc < MaxOps THEN FreeArgs(op) ELSE {}
    ELSE IF /\ caller = "smoke" /\ pc < Len(Smoke)
            /\ Smoke[pc + 1].op = op /\ Smoke[pc + 1].depth = Len(stack)
         THEN {Smoke[pc + 1]}
         ELSE {}

\* the writers in scope at the caller's next call
ScopeDepth ==
    IF caller = "smoke"
    THEN IF pc < Len(Smoke) THEN Smoke[pc + 1].depth ELSE 0
    ELSE IF unwinding THEN 0 ELSE Len(stack) - 1

Init ==
    /\ pre \in InitBufs
    /\ buf = pre
    /\ stack = <<>>
    /\ caller \in {"any", "smoke"}
    /\ pc = 0
    /\ unwinding = FALSE
    /\ scope = <<>>
    /\ docs = <<>>
    /\ life = <<>>
    /\ arg = <<>>
    /\ mark = 0

(* ---------------------------- free functions --------------------------- *)

\* a value written at the top level: no writer is live
TopValue(b, v) ==
    /\ stack = <<>>
    /\ buf' = b
    /\ docs' = Append(docs, v)
    /\ pc' = pc + 1
    /\ UNCHANGED <<stack, caller, unwinding, pre, scope, life>>

\* pub fn null(buf)
null ==
    \E a \in Args("null") :
        TopValue(encode_null(buf, <<>>), NullVal) /\ UNCHANGED <<arg, mark>>

\* pub fn bool(buf, value)
bool ==
    \E a \in Args("bool") :
        TopValue(encode_bool(buf, a.val), BoolVal(a.val)) /\ UNCHANGED <<arg, mark>>

\* pub fn number(buf, number)
number ==
    \E a \in Args("number") :
        TopValue(encode_number(buf, a.val), NumVal(a.val)) /\ UNCHANGED <<arg, mark>>

\* pub fn string(buf, string), called with s
string_call(s) ==
    /\ TopValue(encode_str(buf, s), StrVal(s))
    /\ arg' = s
    /\ mark' = Len(buf)

\* pub fn string(buf, string)
string == \E a \in Args("string") : string_call(a.val)

\* a writer r.w opened under key k: as a root, or as an entry of the live writer
Opened(r, k, parent) ==
    /\ buf' = r.buf
    /\ stack' = Append(parent, r.w)
    /\ scope' = Append(scope, [id |-> Len(life) + 1, key |-> k, entries |-> <<>>])
    /\ life' = Append(IF scope = <<>> THEN life
                      ELSE [life EXCEPT ![TopId].n = @ + 1],
                      [kind |-> r.w.kind, state |-> "Open", n |-> 0])
    /\ pc' = pc + 1
    /\ UNCHANGED <<caller, unwinding, pre, docs, arg, mark>>

\* pub fn object(buf) -> Object
object ==
    \E a \in Args("object") :
        stack = <<>> /\ Opened(Object_new(buf), <<>>, stack)

\* pub fn array(buf) -> Array
array ==
    \E a \in Args("array") :
        stack = <<>> /\ Opened(Array_new(buf), <<>>, stack)

(* ------------------------------- entries ------------------------------- *)

\* the live writer is the innermost one: the others are mutably borrowed
Live(kind) == stack # <<>> /\ Top.kind = kind

MayNest == caller = "any" => Len(stack) < MaxDepth

\* an entry written by the live writer: r is what the method leaves
Entry(r, k, v) ==
    /\ buf' = r.buf
    /\ stack' = [stack EXCEPT ![Len(stack)] = r.w]
    /\ scope' = [scope EXCEPT ![Len(scope)].entries =
                                  Append(@, [key |-> k, val |-> v])]
    /\ life' = [life EXCEPT ![TopId].n = @ + 1]
    /\ pc' = pc + 1
    /\ UNCHANGED <<caller, unwinding, pre, docs, arg, mark>>

Object_null ==
    \E a \in Args("Object::null") :
        /\ Live("Object")
        /\ Entry(Object_field(buf, Top, a.key, "encode_null", <<>>), a.key, NullVal)

Object_bool ==
    \E a \in Args("Object::bool") :
        /\ Live("Object")
        /\ Entry(Object_field(buf, Top, a.key, "encode_bool", a.val),
                 a.key, BoolVal(a.val))

Object_number ==
    \E a \in Args("Object::number") :
        /\ Live("Object")
        /\ Entry(Object_field(buf, Top, a.key, "encode_number", a.val),
                 a.key, NumVal(a.val))

Object_string ==
    \E a \in Args("Object::string") :
        /\ Live("Object")
        /\ Entry(Object_field(buf, Top, a.key, "encode_str", a.val),
                 a.key, StrVal(a.val))

\* Object::object: self.key(key); Object::new(self.buf)
Object_object ==
    \E a \in Args("Object::object") :
        /\ Live("Object") /\ MayNest
        /\ LET r == Object_key(buf, Top, a.key)
           IN Opened(Object_new(r.buf), a.key,
                     [stack EXCEPT ![Len(stack)] = r.w])

\* mutant: the array is opened without self.key(key)
Object_array_no_key ==
    \E a \in Args("Object::array") :
        /\ Live("Object") /\ MayNest
        /\ Opened(Array_new(buf), a.key, stack)

\* Object::array: self.key(key); Array::new(self.buf)
Object_array ==
    \E a \in Args("Object::array") :
        /\ Live("Object") /\ MayNest
        /\ LET r == Object_key(buf, Top, a.key)
           IN Opened(Array_new(r.buf), a.key,
                     [stack EXCEPT ![Len(stack)] = r.w])

Array_null ==
    \E a \in Args("Array::null") :
        /\ Live("Array")
        /\ Entry(Array_element(buf, Top, "encode_null", <<>>), <<>>, NullVal)

Array_bool ==
    \E a \in Args("Array::bool") :
        /\ Live("Array")
        /\ Entry(Array_element(buf, Top, "encode_bool", a.val), <<>>, BoolVal(a.val))

Array_number ==
    \E a \in Args("Array::number") :
        /\ Live("Array")
        /\ Entry(Array_element(buf, Top, "encode_number", a.val), <<>>, NumVal(a.val))

Array_string ==
    \E a \in Args("Array::string") :
        /\ Live("Array")
        /\ Entry(Array_element(buf, Top, "encode_str", a.val), <<>>, StrVal(a.val))

\* Array::object: self.comma(); Object::new(self.buf)
Array_object ==
    \E a \in Args("Array::object") :
        /\ Live("Array") /\ MayNest
        /\ LET r == Array_comma(buf, Top)
           IN Opened(Object_new(r.buf), <<>>, [stack EXCEPT ![Len(stack)] = r.w])

\* Array::array: self.comma(); Array::new(self.buf)
Array_array ==
    \E a \in Args("Array::array") :
        /\ Live("Array") /\ MayNest
        /\ LET r == Array_comma(buf, Top)
           IN Opened(Array_new(r.buf), <<>>, [stack EXCEPT ![Len(stack)] = r.w])

(* ------------------------------ scope ends ----------------------------- *)

\* the live writer's scope ends and b is what its drop leaves in the buffer
Dropped(b) ==
    LET f == scope[Len(scope)]
        v == TreeVal(Top.kind, f.entries)
        rest == SubSeq(scope, 1, Len(scope) - 1)
    IN /\ buf' = b
       /\ stack' = SubSeq(stack, 1, Len(stack) - 1)
       /\ scope' = IF rest = <<>> THEN rest
                   ELSE [rest EXCEPT ![Len(rest)].entries =
                                        Append(@, [key |-> f.key, val |-> v])]
       /\ docs' = IF rest = <<>> THEN Append(docs, v) ELSE docs
       /\ life' = [life EXCEPT ![f.id].state = "Closed"]
       /\ UNCHANGED <<caller, pc, unwinding, pre, arg, mark>>

\* the live writer's scope ends: the caller leaves it, or a panic unwinds
ScopeEnds == Len(stack) > ScopeDepth

\* impl Drop for Object
Drop_Object == Live("Object") /\ ScopeEnds /\ Dropped(Object_drop(buf))

\* impl Drop for Array
Drop_Array == Live("Array") /\ ScopeEnds /\ Dropped(Array_drop(buf))

\* the caller panics between two calls: the live writers are dropped,
\* innermost first, and no other call is made
Panic ==
    /\ caller = "any" /\ ~unwinding /\ stack # <<>>
    /\ unwinding' = TRUE
    /\ UNCHANGED <<buf, stack, caller, pc, pre, scope, docs, life, arg, mark>>

Next ==
    \/ null \/ bool \/ number \/ string \/ object \/ array
    \/ Object_null \/ Object_bool \/ Object_number \/ Object_string
    \/ Object_object \/ Object_array
    \/ Array_null \/ Array_bool \/ Array_number \/ Array_string
    \/ Array_object \/ Array_array
    \/ Drop_Object \/ Drop_Array \/ Panic

Spec == Init /\ [][Next]_vars

\* the calls of the straight-line caller smoke: each returns, the next follows
SmokeRuns == caller = "smoke" /\ Next

\* every scope a caller has opened ends, as the caller returns or unwinds,
\* and a straight-line caller runs to its end
FairSpec ==
    Spec /\ WF_vars(Drop_Object) /\ WF_vars(Drop_Array) /\ WF_vars(SmokeRuns)

(* -------------------- the string encoder on its own -------------------- *)

InitStr ==
    /\ pre \in InitBufs
    /\ buf = pre
    /\ stack = <<>>
    /\ caller = "string"
    /\ pc = 0
    /\ unwinding = FALSE
    /\ scope = <<>>
    /\ docs = <<>>
    /\ life = <<>>
    /\ arg = <<>>
    /\ mark = 0

\* one call of pub fn string(buf, string) with any of the input strings
StringOnce == \E s \in StrInputs : pc = 0 /\ string_call(s)

StrSpec == InitStr /\ [][StringOnce]_vars

\* one call of pub fn string(buf, string) with a string of control characters
StringControl == \E s \in ControlInputs : pc = 0 /\ string_call(s)

ControlSpec == InitStr /\ [][StringControl]_vars

(* ------------------------ reading the buffer back ---------------------- *)

\* the text of buffer b appended since the first call
Since(b) == SubSeq(b, Len(pre) + 1, Len(b))
Out == Since(buf)

Max(a, b) == IF a > b THEN a ELSE b
Opener(kind) == IF kind = "Object" THEN LBRACE ELSE LBRACKET
Closer(kind) == IF kind = "Object" THEN RBRACE ELSE RBRACKET
Kinds(ws) == [i \in 1..Len(ws) |-> ws[i].kind]

\* A scan of JSON text, left to right.  Inside a string literal a backslash
\* hides the character after it and an unhidden double quote ends the
\* literal.  Outside, every opening bracket starts a container (numbered in
\* order of appearance), a closing bracket ends the innermost open one, and
\* a comma belongs to the innermost open one.
\*   open:  the containers still open, outermost first
\*   cont:  every container: its kind, its commas, whether it has ended, the
\*          texts of its keys between their quotes (a literal followed by a
\*          colon), and the texts of its values, each in order of
\*          appearance; of a nested container the value text is its opening
\*          bracket alone
\*   prev:  the last thing read outside strings
\*   nest:  a closing bracket had no opener of its kind to match (the scan
\*          stops there)
\*   sep:   a comma followed an opening bracket, a comma or a colon, or stood
\*          outside every container, or a closing bracket followed a comma
\*   lit:   the text of the string literal being read, or of the last one
\*          read, between its quotes
\*   isVal: that literal stands where a value stands
\*   tok:   the last character read was part of a number, null, true or false
ScanStart ==
    [inStr |-> FALSE, esc |-> FALSE, open |-> <<>>, cont |-> <<>>,
     prev |-> "start", nest |-> FALSE, sep |-> FALSE,
     lit |-> <<>>, isVal |-> FALSE, tok |-> FALSE]

\* the innermost open container of a scan state with one
ScanTop(st) == st.open[Len(st.open)]

ScanChar(st, c) ==
    IF st.inStr
    THEN IF st.esc THEN [st EXCEPT !.esc = FALSE, !.lit = Append(@, c)]
         ELSE IF c = BACKSLASH THEN [st EXCEPT !.esc = TRUE, !.lit = Append(@, c)]
         ELSE IF c = DQUOTE
              THEN IF st.isVal
                   THEN [st EXCEPT !.inStr = FALSE, !.prev = "value",
                                   !.cont[ScanTop(st)].vals =
                                       Append(@, <<DQUOTE>> \o st.lit \o <<DQUOTE>>)]
                   ELSE [st EXCEPT !.inStr = FALSE, !.prev = "value"]
         ELSE [st EXCEPT !.lit = Append(@, c)]
    ELSE IF c = DQUOTE
         THEN [st EXCEPT !.inStr = TRUE, !.lit = <<>>, !.tok = FALSE,
                         !.isVal = /\ st.open # <<>>
                                   /\ \/ st.cont[ScanTop(st)].kind = "Array"
                                      \/ st.prev = "colon"]
    ELSE IF c \in {LBRACE, LBRACKET}
         THEN LET in == IF st.open = <<>> THEN st
                        ELSE [st EXCEPT !.cont[ScanTop(st)].vals = Append(@, <<c>>)]
              IN [in EXCEPT
                    !.open = Append(@, Len(st.cont) + 1),
                    !.cont = Append(@, [kind |-> IF c = LBRACE THEN "Object" ELSE "Array",
                                        commas |-> 0, closed |-> FALSE,
                                        keys |-> <<>>, vals |-> <<>>]),
                    !.prev = "open", !.tok = FALSE]
    ELSE IF c \in {RBRACE, RBRACKET}
         THEN IF st.open = <<>> \/ Closer(st.cont[ScanTop(st)].kind) # c
              THEN [st EXCEPT !.nest = TRUE]
              ELSE [st EXCEPT
                      !.open = SubSeq(@, 1, Len(@) - 1),
                      !.cont[ScanTop(st)].closed = TRUE,
                      !.sep = @ \/ st.prev = "comma",
                      !.prev = "value", !.tok = FALSE]
    ELSE IF c = COMMA
         THEN IF st.open = <<>> THEN [st EXCEPT !.sep = TRUE, !.tok = FALSE]
              ELSE [st EXCEPT
                      !.cont[ScanTop(st)].commas = @ + 1,
                      !.sep = @ \/ st.prev \in {"open", "comma", "colon"},
                      !.prev = "comma", !.tok = FALSE]
    ELSE IF c = COLON
         THEN IF st.open = <<>> THEN [st EXCEPT !.prev = "colon", !.tok = FALSE]
              ELSE [st EXCEPT !.cont[ScanTop(st)].keys = Append(@, st.lit),
                              !.prev = "colon", !.tok = FALSE]
    ELSE IF st.open = <<>> THEN [st EXCEPT !.prev = "value", !.tok = TRUE]
    ELSE IF st.tok /\ st.cont[ScanTop(st)].vals # <<>>
         THEN [st EXCEPT
                 !.cont[ScanTop(st)].vals[Len(st.cont[ScanTop(st)].vals)] = Append(@, c),
                 !.prev = "value"]
    ELSE [st EXCEPT !.cont[ScanTop(st)].vals = Append(@, <<c>>),
                    !.prev = "value", !.tok = TRUE]

\* the scan continued over text[lo..hi], one half after the other; it stops
\* at a closing bracket that matches no opener
RECURSIVE ScanOver(_, _, _, _)
ScanOver(st, text, lo, hi) ==
    IF lo > hi THEN st
    ELSE IF lo = hi THEN ScanChar(st, text[lo])
    ELSE LET mid == (lo + hi) \div 2
             left == ScanOver(st, text, lo, mid)
         IN IF left.nest THEN left ELSE ScanOver(left, text, mid + 1, hi)

Scan(text) == ScanOver(ScanStart, text, 1, Len(text))

\* the containers of a scan that have ended
Ended(st) == {i \in 1..Len(st.cont) : st.cont[i].closed}

\* the number of closing brackets outside string literals in buffer b
Closings(b) == Cardinality(Ended(Scan(Since(b))))
\* the number of writers of l that have closed
ClosedIn(l) == Cardinality({i \in 1..Len(l) : l[i].state = "Closed"})

(* ------------------------------- claims -------------------------------- *)

\* C1: at every point the brackets the writers appended (those outside string
\* literals) are correctly nested: every closing bracket matches the kind of
\* the innermost unmatched opener, there is one opener per writer opened, the
\* unmatched openers are exactly the live writers, in nesting order and of
\* their kinds, and so once every writer has closed every opener is matched.
C1_BracketsNested ==
    LET st == Scan(Out)
    IN /\ ~st.inStr /\ ~st.nest
       /\ Kinds(st.cont) = Kinds(life)
       /\ [i \in 1..Len(st.open) |-> st.cont[st.open[i]].kind] = Kinds(stack)
       /\ (stack = <<>> => Ended(st) = 1..Len(st.cont))

\* C1 witness: two writers of different kinds were nested and both have
\* closed, and a string literal holds a closing bracket of its own
C1_Witness ==
    /\ stack = <<>> /\ Len(life) = 2 /\ life[1].kind # life[2].kind
    /\ Len(docs) = 1 /\ life[1].n = 1
    /\ Cardinality({i \in 1..Len(Out) : Out[i] \in {RBRACE, RBRACKET}}) > 2

\* C2: every writer that has had N entries (values and nested writers alike)
\* has exactly max(N - 1, 0) commas at its own depth, whether still open or
\* closed, and no comma directly follows an opening bracket, a comma or a
\* colon, nor directly precedes a closing bracket.
C2_CommasSeparate ==
    LET st == Scan(Out)
    IN /\ ~st.sep
       /\ Len(st.cont) = Len(life)
       /\ \A i \in 1..Len(life) : st.cont[i].commas = Max(life[i].n - 1, 0)

\* C2 witness: a closed writer with four entries, one of them a nested writer
\* with two
C2_Witness ==
    /\ stack = <<>> /\ Len(life) = 2
    /\ life[1].n = 4 /\ life[2].n = 2

\* The compact serialization of the values the calls imply.  A string, as a
\* value or as a key, stands as the literal the string encoder gives it (what
\* that literal holds is the matter of the string encoder's own claims), and
\* a number as the decimal digits the number encoder gives it.
RECURSIVE Compact(_), CompactEntries(_, _, _)
Compact(v) ==
    IF v.t = "null" THEN <<110, 117, 108, 108>>
    ELSE IF v.t = "bool"
         THEN IF v.b THEN <<116, 114, 117, 101>> ELSE <<102, 97, 108, 115, 101>>
    ELSE IF v.t = "number" THEN encode_number(<<>>, v.n)
    ELSE IF v.t = "string" THEN encode_str(<<>>, v.s)
    ELSE <<Opener(v.t)>> \o CompactEntries(v.t, v.e, 1) \o <<Closer(v.t)>>

\* the entries es[i..] of a container of this kind, in order
CompactEntries(kind, es, i) ==
    IF i > Len(es) THEN <<>>
    ELSE (IF i > 1 THEN <<COMMA>> ELSE <<>>)
         \o (IF kind = "Object" THEN encode_str(<<>>, es[i].key) \o <<COLON>>
             ELSE <<>>)
         \o Compact(es[i].val)
         \o CompactEntries(kind, es, i + 1)

RECURSIVE CompactAll(_, _)
CompactAll(vs, i) ==
    IF i > Len(vs) THEN <<>> ELSE Compact(vs[i]) \o CompactAll(vs, i + 1)

\* what the writers still open have had written: for each, outermost first,
\* its opening bracket, its finished entries and the start of the entry that
\* is its open child
RECURSIVE CompactOpen(_)
CompactOpen(j) ==
    IF j > Len(stack) THEN <<>>
    ELSE <<Opener(stack[j].kind)>>
         \o CompactEntries(stack[j].kind, scope[j].entries, 1)
         \o (IF j = Len(stack) THEN <<>>
             ELSE (IF scope[j].entries # <<>> THEN <<COMMA>> ELSE <<>>)
                  \o (IF stack[j].kind = "Object"
                      THEN encode_str(<<>>, scope[j + 1].key) \o <<COLON>>
                      ELSE <<>>)
                  \o CompactOpen(j + 1))

\* {"name":"Peter","favorite number":92,"films":["Drowning By Numbers",
\* "A Zed & Two Noughts"],"suitcase":null}
SmokeText ==
    <<123, 34, 110, 97, 109, 101, 34, 58, 34, 80, 101, 116, 101, 114, 34, 44,
      34, 102, 97, 118, 111, 114, 105, 116, 101, 32, 110, 117, 109, 98, 101,
      114, 34, 58, 57, 50, 44, 34, 102, 105, 108, 109, 115, 34, 58, 91, 34, 68,
      114, 111, 119, 110, 105, 110, 103, 32, 66, 121, 32, 78, 117, 109, 98, 101,
      114, 115, 34, 44, 34, 65, 32, 90, 101, 100, 32, 38, 32, 84, 119, 111, 32,
      78, 111, 117, 103, 104, 116, 115, 34, 93, 44, 34, 115, 117, 105, 116, 99,
      97, 115, 101, 34, 58, 110, 117, 108, 108, 125>>

\* the caller smoke has made its calls and left its scopes
SmokeDone == caller = "smoke" /\ pc = Len(Smoke) /\ stack = <<>>

C9_ClosesOnce ==
    [][/\ Len(stack') < Len(stack) =>
            /\ buf' = Append(buf, Closer(Top.kind))
            /\ life[TopId].n = 0 =>
                 SubSeq(buf', Len(buf') - 1, Len(buf')) =
                     <<Opener(Top.kind), Closer(Top.kind)>>
       /\ Len(stack') >= Len(stack) => Closings(buf') = Closings(buf)
       /\ Closings(buf') = ClosedIn(life')]_vars

\* C9 witness: an Object closed with no entry, then an Array closed with no
\* entry
C9_Witness ==
    /\ stack = <<>> /\ Len(life) = 2
    /\ Out = <<LBRACE, RBRACE, LBRACKET, RBRACKET>>

\* the writers a caller can have opened: each takes a call, and smoke opens two
Writers == 1..MaxOps

\* writer i has reached this state
Reached(i, state) == i <= Len(life) /\ life[i].state = state

\* writer i has been opened and its opening bracket is in the buffer
IsOpened(i) == i <= Len(life) /\ i <= Len(Scan(Out).cont)

\* writer i has closed and its closing bracket is in the buffer
IsClosed(i) ==
    /\ IsOpened(i)
    /\ life[i].state = "Closed"
    /\ Scan(Out).cont[i].closed

\* C10: a writer is Open from the step that opens it, when its opening
\* bracket is appended; it is Open exactly while it is one of the live
\* writers, and its bracket is matched in the buffer exactly when it is
\* Closed; it becomes Closed in one step, the end of its scope as the
\* innermost live writer, which appends its closing bracket; once Closed it
\* stays Closed and its entry count never changes; and every writer opened is
\* eventually Closed, whether the caller leaves its scopes or unwinds.
C10_Lifecycle ==
    /\ [](\A i \in 1..Len(life) :
            /\ IsOpened(i)
            /\ (life[i].state = "Open") = (\E j \in 1..Len(scope) : scope[j].id = i)
            /\ (life[i].state = "Closed") = Scan(Out).cont[i].closed)
    /\ [][/\ Len(life') >= Len(life)
          /\ \A i \in 1..Len(life') :
               /\ i > Len(life) => life'[i].state = "Open"
               /\ i <= Len(life) /\ life[i].state = "Closed" => life'[i] = life[i]
               /\ i <= Len(life) /\ life[i].state = "Open"
                    /\ life'[i].state = "Closed" =>
                      /\ i = TopId
                      /\ buf' = Append(buf, Closer(life[i].kind))]_vars
    /\ \A i \in Writers : [](Reached(i, "Open") => <>Reached(i, "Closed"))

\* C10 witness: a panic unwound two nested writers, and both are Closed
C10_Witness ==
    /\ unwinding /\ stack = <<>> /\ Len(life) = 2
    /\ IsClosed(1) /\ IsClosed(2)
    /\ Len(docs) = 1

\* the commas a scan of buffer b gives container i at its own depth
CommasOf(b, i) == Scan(Since(b)).cont[i].commas

\* the containers a scan of buffer b leaves open, outermost first
OpenIn(b) == Scan(Since(b)).open

\* C11: in every step, each live writer other than the innermost stays as it
\* is (its kind, its comma state, its entry count) and gets no comma at its
\* own depth; a writer's entry count grows only while it is the innermost
\* live writer, with every writer opened after it already closed; and the
\* text a step appends without opening or closing a writer lies inside the
\* innermost open container and leaves that writer's kind as it was.
C11_InnermostAppends ==
    [][/\ \A j \in 1..(Len(stack) - 1) :
            /\ j <= Len(stack')
            /\ stack'[j] = stack[j]
            /\ life'[scope[j].id] = life[scope[j].id]
            /\ CommasOf(buf', scope[j].id) = CommasOf(buf, scope[j].id)
       /\ \A i \in 1..Len(life) :
            life'[i].n > life[i].n =>
                /\ stack # <<>> /\ i = TopId
                /\ \A k \in (i + 1)..Len(life) : life[k].state = "Closed"
       /\ Len(stack') = Len(stack) =>
            /\ Kinds(stack') = Kinds(stack)
            /\ OpenIn(buf') = OpenIn(buf)]_vars

\* C11 witness: a child had two entries while its parent waited with two, the
\* child has closed, and the parent, still open, has had its next entry
C11_Witness ==
    /\ Len(stack) = 1 /\ Len(life) = 2
    /\ life[2].state = "Closed" /\ life[2].n = 2
    /\ life[1].state = "Open" /\ life[1].n = 4

\* the text "null"
NullText == <<110, 117, 108, 108>>

\* the last entry the innermost live writer has finished is a nested writer
AfterChild ==
    /\ scope # <<>> /\ scope[Len(scope)].entries # <<>>
    /\ LET es == scope[Len(scope)].entries
       IN es[Len(es)].val.t \in {"Object", "Array"}

\* C12: a step that opens a writer under a live writer appends the comma
\* if the parent has had an entry, then for an Object parent the key's
\* literal and ':', then the child's opening bracket and nothing else; up to
\* that bracket it is the text a null entry of the parent would start with;
\* the parent's first flag is cleared and its entries counted one more; the
\* child starts with first set and no entries; and the parent's next entry
\* after a child has closed starts with a comma.
C12_NestedIsEntry ==
    [][/\ (stack # <<>> /\ Len(stack') = Len(stack) + 1) =>
            LET had == life[TopId].n > 0
                k == scope'[Len(scope')].key
                child == stack'[Len(stack')]
                lead == (IF had THEN <<COMMA>> ELSE <<>>)
                        \o (IF Top.kind = "Object"
                            THEN encode_str(<<>>, k) \o <<COLON>> ELSE <<>>)
            IN /\ buf' = buf \o lead \o <<Opener(child.kind)>>
               /\ buf \o lead \o NullText =
                    (IF Top.kind = "Object"
                     THEN Object_field(buf, Top, k, "encode_null", <<>>)
                     ELSE Array_element(buf, Top, "encode_null", <<>>)).buf
               /\ stack'[Len(stack)] = [Top EXCEPT !.first = FALSE]
               /\ life'[TopId].n = life[TopId].n + 1
               /\ child.first
               /\ life'[Len(life')].n = 0
               /\ scope'[Len(scope')].entries = <<>>
       /\ (AfterChild /\ life'[TopId].n > life[TopId].n) =>
            /\ ~Top.first
            /\ Len(buf') > Len(buf) /\ buf'[Len(buf) + 1] = COMMA]_vars

\* C12 witness: the array "films" has just been opened as the third entry of
\* its parent: a comma, the key, ':' and '[' end the buffer
C12_Witness ==
    /\ Len(stack) = 2 /\ Len(life) = 2
    /\ life[1].n = 3 /\ life[2].n = 0 /\ stack[2].first
    /\ Len(Out) >= 10
    /\ SubSeq(Out, Len(Out) - 9, Len(Out)) =
           <<44, 34, 102, 105, 108, 109, 115, 34, 58, 91>>

\* what starts an entry of the innermost live writer under key k: the comma
\* if it has had an entry, and for an Object the key's literal and ':'
Lead(k) ==
    (IF life[TopId].n > 0 THEN <<COMMA>> ELSE <<>>)
    \o (IF Top.kind = "Object" THEN encode_str(<<>>, k) \o <<COLON>> ELSE <<>>)

\* the text the operation of a step gives, worked out from the operation and
\* the writer's state alone, as on an empty buffer: a closing bracket, an
\* opening bracket (after the entry's lead under a parent), a top-level
\* value, or an entry of the innermost live writer
StepText ==
    IF Len(stack') < Len(stack) THEN <<Closer(Top.kind)>>
    ELSE IF Len(stack') > Len(stack)
    THEN (IF stack = <<>> THEN <<>> ELSE Lead(scope'[Len(scope')].key))
         \o <<Opener(stack'[Len(stack')].kind)>>
    ELSE IF stack = <<>>
    THEN IF Len(docs') > Len(docs) THEN Compact(docs'[Len(docs')]) ELSE <<>>
    ELSE IF life'[TopId].n > life[TopId].n
    THEN LET es == scope'[Len(scope)].entries
         IN Lead(es[Len(es)].key) \o Compact(es[Len(es)].val)
    ELSE <<>>

\* C13: every step leaves what the buffer held as an unchanged prefix of what
\* it holds after, so the buffer never shrinks and what it held before the
\* first call stays in front; and what a step appends is the text of its
\* operation as on an empty buffer, whatever the buffer held.
C13_AppendOnly ==
    [][/\ Len(buf') >= Len(buf)
       /\ SubSeq(buf', 1, Len(buf)) = buf
       /\ SubSeq(buf', 1, Len(pre)) = pre
       /\ SubSeq(buf', Len(buf) + 1, Len(buf')) = StepText]_vars

\* C13 witness: the documented example has run on a buffer that was not
\* empty, and its text follows what the buffer held
C13_Witness ==
    /\ pre = <<LBRACKET>> /\ SmokeDone
    /\ buf = pre \o SmokeText

\* C19: the first flag of every live writer is set exactly when the writer
\* has had no entry, value or nested writer; in a step it is cleared only for
\* the innermost live writer, as that writer takes its first entry, and it is
\* never set again; the flags of the writers below the innermost stay as
\* they are, also as the innermost closes; and a writer starts with its flag
\* set.
C19_FirstFlag ==
    /\ [](\A j \in 1..Len(stack) :
            stack[j].first = (life[scope[j].id].n = 0))
    /\ [][/\ \A j \in 1..Len(stack) :
               (j <= Len(stack') /\ scope'[j].id = scope[j].id) =>
                   /\ ~stack[j].first => ~stack'[j].first
                   /\ (stack[j].first /\ ~stack'[j].first) =>
                        /\ j = Len(stack)
                        /\ life[scope[j].id].n = 0 /\ life'[scope[j].id].n = 1
                   /\ j < Len(stack) => stack'[j].first = stack[j].first
          /\ Len(stack') < Len(stack) =>
               stack' = SubSeq(stack, 1, Len(stack) - 1)
          /\ Len(stack') > Len(stack) =>
               /\ stack'[Len(stack')].first
               /\ life'[scope'[Len(scope')].id].n = 0]_vars

\* C19 witness: a parent whose only entry is its open child, and the child
\* with one entry: both flags are cleared
C19_Witness ==
    /\ Len(stack) = 2
    /\ ~stack[1].first /\ ~stack[2].first
    /\ life[scope[1].id].n = 1 /\ life[scope[2].id].n = 1

(* ------------------------ string encoder claims ------------------------ *)

\* the string encoder has been called on arg, alone, at buffer length mark
Called == caller = "string" /\ pc = 1

\* the literal that call appended
Lit == SubSeq(buf, mark + 1, Len(buf))

Min(a, b) == IF a < b THEN a ELSE b

\* A JSON string literal's text between its quotes, cut into units as a JSON
\* parser reads it: a backslash and 'u' with the four characters after them,
\* a backslash with the character after it, or one character
RECURSIVE UnitsFrom(_, _)
UnitsFrom(text, i) ==
    IF i > Len(text) THEN <<>>
    ELSE IF text[i] # BACKSLASH THEN <<<<text[i]>>>> \o UnitsFrom(text, i + 1)
    ELSE IF i < Len(text) /\ text[i + 1] = 117
         THEN <<SubSeq(text, i, Min(i + 5, Len(text)))>> \o UnitsFrom(text, i + 6)
         ELSE <<SubSeq(text, i, Min(i + 1, Len(text)))>> \o UnitsFrom(text, i + 2)

Units(lit) == UnitsFrom(SubSeq(lit, 2, Len(lit) - 1), 1)

\* the value of a hexadecimal digit, -1 for any other character
HexValue(c) ==
    IF 48 <= c /\ c <= 57 THEN c - 48
    ELSE IF 65 <= c /\ c <= 70 THEN c - 55
    ELSE IF 97 <= c /\ c <= 102 THEN c - 87
    ELSE -1

\* the character a unit stands for in JSON (RFC 8259, section 7), -1 if none
UnitValue(u) ==
    IF Len(u) = 1
    THEN IF u[1] < 32 \/ u[1] = DQUOTE \/ u[1] = BACKSLASH THEN -1 ELSE u[1]
    ELSE IF Len(u) = 2
    THEN IF u[2] \in {DQUOTE, BACKSLASH, 47} THEN u[2]
         ELSE IF u[2] = 98 THEN 8
         ELSE IF u[2] = 102 THEN 12
         ELSE IF u[2] = 110 THEN NEWLINE
         ELSE IF u[2] = 114 THEN CARRIAGE
         ELSE IF u[2] = 116 THEN TAB
         ELSE -1
    ELSE IF Len(u) = 6 /\ \A k \in 3..6 : HexValue(u[k]) >= 0
    THEN 4096 * HexValue(u[3]) + 256 * HexValue(u[4])
         + 16 * HexValue(u[5]) + HexValue(u[6])
    ELSE -1

\* the string a JSON parser reads from a literal; <<-1>> if it rejects it
Unescape(lit) ==
    LET us == Units(lit)
    IN IF Len(lit) < 2 \/ lit[1] # DQUOTE \/ lit[Len(lit)] # DQUOTE
          \/ \E k \in 1..Len(us) : UnitValue(us[k]) < 0
       THEN <<-1>>
       ELSE [k \in 1..Len(us) |-> UnitValue(us[k])]

\* \u00XY for the high and low nibbles of v
Escape00(v) ==
    <<BACKSLASH, 117, 48, 48, HexDigits[(v \div 16) + 1], HexDigits[(v % 16) + 1]>>

\* the control characters that have no escape of their own
OtherControl(v) == (v <= 31 /\ v \notin {TAB, NEWLINE, CARRIAGE}) \/ (127 <= v /\ v <= 159)

\* C4 (as claimed): every character of the input whose scalar value v is in
\* 0x00-0x1F (other than 0x09, 0x0A, 0x0D) or in 0x7F-0x9F is emitted as the
\* six characters \u00XY, X the uppercase hexadecimal digit of v div 16 and Y
\* that of v mod 16.
C4_ControlEscaped ==
    Called =>
        LET us == Units(Lit)
        IN \A i \in 1..Len(arg) :
              OtherControl(arg[i]) => i <= Len(us) /\ us[i] = Escape00(arg[i])

\* C5 (as claimed): every character above 0xFF is emitted verbatim, and only
\* a backslash, a double quote and the scalar values 0x00-0x1F and 0x7F-0x9F
\* cause a backslash to be emitted.
C5_AboveFFVerbatim ==
    Called =>
        LET us == Units(Lit)
        IN \A i \in 1..Len(arg) :
              /\ i <= Len(us)
              /\ arg[i] > 255 => us[i] = <<arg[i]>>
              /\ us[i][1] = BACKSLASH =>
                   arg[i] \in {BACKSLASH, DQUOTE} \cup (0..31) \cup (127..159)

\* C6 (as claimed): every U+007F of the input is emitted as \u007F, also when
\* every other character is printable ASCII other than the double quote and
\* the backslash; 0x7F followed by '!' encodes to "\u007F!".
C6_DelEscaped ==
    Called =>
        LET us == Units(Lit)
        IN /\ \A i \in 1..Len(arg) :
                arg[i] = 127 => i <= Len(us) /\ us[i] = <<BACKSLASH, 117, 48, 48, 55, 70>>
           /\ arg = <<127, 33>> =>
                Lit = <<DQUOTE, BACKSLASH, 117, 48, 48, 55, 70, 33, DQUOTE>>

\* C7 (as claimed): a JSON parser reads the original input back from the
\* literal, for every input string, and so no other input gives the same
\* literal.
C7_RoundTrip ==
    Called =>
        /\ Unescape(Lit) = arg
        /\ \A s \in StrInputs : encode_str(<<>>, s) = Lit => s = arg

\* the two-character escape of a character that has one
Short(c) ==
    IF c = NEWLINE THEN <<BACKSLASH, 110>>
    ELSE IF c = CARRIAGE THEN <<BACKSLASH, 114>>
    ELSE IF c = TAB THEN <<BACKSLASH, 116>>
    ELSE <<BACKSLASH, c>>

\* C8: every character of the input is emitted as one unit of the literal,
\* and a backslash is emitted as \\, a double quote as \", a newline as \n, a
\* carriage return as \r and a tab as \t: two characters each, never the
\* six of \u0009, \u000A or \u000D.
C8_ShortEscapes ==
    Called =>
        LET us == Units(Lit)
        IN /\ Len(us) = Len(arg)
           /\ \A i \in 1..Len(arg) :
                arg[i] \in {BACKSLASH, DQUOTE, NEWLINE, CARRIAGE, TAB} =>
                    us[i] = Short(arg[i])

\* C8 witness: the test's string of a space, \r, \n, \t, a backslash and more
\* has been encoded
C8_Witness ==
    /\ Called
    /\ arg = <<32, 13, 10, 9, 92, 32, 92, 114, 92, 110, 92, 116>>
    /\ Len(Lit) = 21

\* every byte of the encoding of s is in 32..127 and is neither the double
\* quote nor the backslash
Plain(s) ==
    \A i \in 1..Len(s) :
        \A j \in 1..Len(Utf8(s[i])) :
            LET byte == Utf8(s[i])[j]
            IN 32 <= byte /\ byte <= 127 /\ byte \notin {DQUOTE, BACKSLASH}

C16_Quoted ==
    Called =>
        /\ Len(Lit) >= 2
        /\ Lit[1] = DQUOTE /\ Lit[Len(Lit)] = DQUOTE
        /\ Len(Lit) >= Len(arg) + 2
        /\ arg = <<>> => Lit = <<DQUOTE, DQUOTE>>

\* C16 witness: the empty string has been encoded on a buffer that was not
\* empty
C16_Witness ==
    /\ Called /\ arg = <<>> /\ pre # <<>>
    /\ buf = pre \o <<DQUOTE, DQUOTE>>

\* a unit of a literal is well formed as C18 has it: a character from 0x20
\* up other than the double quote and the backslash, one of the escapes of
\* two characters, or \u and four hexadecimal digits
WellFormedUnit(u) ==
    IF Len(u) = 1 THEN u[1] >= 32 /\ u[1] \notin {DQUOTE, BACKSLASH}
    ELSE IF Len(u) = 2
    THEN u[1] = BACKSLASH /\ u[2] \in {BACKSLASH, DQUOTE, 110, 114, 116}
    ELSE /\ Len(u) = 6 /\ u[1] = BACKSLASH /\ u[2] = 117
         /\ \A k \in 3..6 : HexValue(u[k]) >= 0

\* C18 (as claimed): every literal the string encoder produces is a
\* well-formed RFC 8259 string: between its two quotes there is no raw
\* character below 0x20 and no unescaped double quote, and every backslash
\* begins \\, \", \n, \r, \t or \u with four hexadecimal digits.
C18_WellFormed ==
    Called =>
        LET us == Units(Lit)
        IN /\ Len(Lit) >= 2 /\ Lit[1] = DQUOTE /\ Lit[Len(Lit)] = DQUOTE
           /\ \A k \in 1..Len(us) : WellFormedUnit(us[k])

(* ------------------- entries read back from the buffer ----------------- *)

\* the live writer j as a value: its finished entries, then its open child
RECURSIVE OpenTree(_)
OpenTree(j) ==
    TreeVal(stack[j].kind,
            scope[j].entries
            \o (IF j < Len(stack)
                THEN <<[key |-> scope[j + 1].key, val |-> OpenTree(j + 1)]>>
                ELSE <<>>))

\* the entries of every container of value v, the containers in the order
\* they were opened
RECURSIVE Walk(_), WalkEntries(_, _)
Walk(v) ==
    IF v.t \in {"Object", "Array"} THEN <<v.e>> \o WalkEntries(v.e, 1) ELSE <<>>

WalkEntries(es, i) ==
    IF i > Len(es) THEN <<>> ELSE Walk(es[i].val) \o WalkEntries(es, i + 1)

RECURSIVE WalkAll(_, _)
WalkAll(vs, i) ==
    IF i > Len(vs) THEN <<>> ELSE Walk(vs[i]) \o WalkAll(vs, i + 1)

\* the entries written to every writer so far, in call order, the writers in
\* the order they were opened
Written ==
    WalkAll(docs \o (IF stack = <<>> THEN <<>> ELSE <<OpenTree(1)>>), 1)

\* the text that stands for value v where a scan records it
ValText(v) == IF v.t \in {"Object", "Array"} THEN <<Opener(v.t)>> ELSE Compact(v)

\* C14: reading the buffer back, every writer's container holds one entry
\* per entry written to it, in the order of the calls: its i-th value text is
\* that of the i-th call, and in an Object its i-th key literal is the
\* literal of the key of the i-th call; so a key written again gives a
\* further entry with that key, after the earlier ones and with its own value.
C14_CallOrder ==
    LET st == Scan(Out)
        w == Written
    IN /\ Len(st.cont) = Len(w) /\ Len(w) = Len(life)
       /\ \A i \in 1..Len(w) :
            /\ Len(w[i]) = life[i].n
            /\ st.cont[i].vals = [e \in 1..Len(w[i]) |-> ValText(w[i][e].val)]
            /\ st.cont[i].kind = "Array" => st.cont[i].keys = <<>>
            /\ st.cont[i].kind = "Object" =>
                 /\ Len(st.cont[i].keys) = Len(w[i])
                 /\ \A e \in 1..Len(w[i]) :
                      <<DQUOTE>> \o st.cont[i].keys[e] \o <<DQUOTE>>
                          = Compact(StrVal(w[i][e].key))

\* C14 witness: an Object was written the same key twice, with different
\* values, and has closed
C14_Witness ==
    /\ stack = <<>> /\ Len(docs) = 1 /\ docs[1].t = "Object"
    /\ Len(docs[1].e) = 2
    /\ docs[1].e[1].key = docs[1].e[2].key
    /\ docs[1].e[1].val # docs[1].e[2].val

\* C17: every step in which an Object takes an entry, a value or a nested
\* writer alike, appends after the comma (if any) the literal the string
\* encoder gives the key as a value, then one ':', then the value's text or
\* the child's opening bracket, and nothing else; the key literal in the
\* buffer has one unit per character of the key, with a backslash, a double
\* quote and a newline of the key as their two-character escapes.
C17_KeyThenColon ==
    [][(stack # <<>> /\ Top.kind = "Object" /\ life'[TopId].n > life[TopId].n) =>
          LET nested == Len(stack') > Len(stack)
              es == scope'[Len(scope)].entries
              k == IF nested THEN scope'[Len(scope')].key ELSE es[Len(es)].key
              v == IF nested THEN <<Opener(stack'[Len(stack')].kind)>>
                   ELSE Compact(es[Len(es)].val)
              n == Len(Compact(StrVal(k)))
              start == Len(buf) + (IF life[TopId].n > 0 THEN 1 ELSE 0)
              keylit == SubSeq(buf', start + 1, start + n)
              us == Units(keylit)
          IN /\ Len(buf') = start + n + 1 + Len(v)
             /\ keylit = Compact(StrVal(k))
             /\ buf'[start + n + 1] = COLON
             /\ SubSeq(buf', start + n + 2, Len(buf')) = v
             /\ Len(us) = Len(k)
             /\ \A i \in 1..Len(k) :
                  k[i] \in {BACKSLASH, DQUOTE, NEWLINE} => us[i] = Short(k[i])]_vars

\* C17 witness: an Object has a string under a key of a closing brace, a
\* double quote, a newline and a backslash: {"}\"\n\\":"],"
C17_Witness ==
    /\ Len(stack) = 1 /\ Top.kind = "Object"
    /\ Out = <<123, 34, 125, 92, 34, 92, 110, 92, 92, 34, 58, 34, 93, 44, 34>>

=============================================================================
